---- MODULE Spec2Model ----
(***************************************************************************)
(* Model of changelog.py: a linear pipeline that lists the last n commits  *)
(* with `git log`, fetches three `git show` outputs per commit, builds a   *)
(* prompt, sends one chat-completion request and prints or writes the      *)
(* result.                                                                 *)
(*                                                                         *)
(* Text is modelled as a sequence of symbols.  A symbol is either a single *)
(* character that the code inspects ("|", "\n", "\t", " ", a digit, "-")   *)
(* or an opaque chunk of text that contains none of those characters.      *)
(* The fixed literals of the f-strings are chunks of their own.            *)
(***************************************************************************)
EXTENDS Integers, Sequences, FiniteSets, TLC

\* ------------------------------------------------------------------ bounds
\* Largest number of commits in the repository, and largest n asked for.
MaxCommits == 2
\* Length of the modelled commit hashes (longer than the 8 symbols printed).
HashLen == 10

\* --------------------------------------------------------- program constants
\* commit['hash'][:8]
HashPrefixLen == 8
\* len(parts) == 4
FieldCount == 4
\* sys.exit(1)
ExitFailure == 1

\* ------------------------------------------------------------ Python values
\* A value that is either None or a str.
NoneVal == [isNone |-> TRUE, text |-> <<>>]
Str(s) == [isNone |-> FALSE, text |-> s]
\* Python truthiness of an Optional[str]: None and "" are falsy.
Truthy(v) == ~v.isNone /\ v.text # <<>>
\* str(v), as print() and f-strings apply it.
PyStr(v) == IF v.isNone THEN <<"None">> ELSE v.text
\* The empty dict {}.
EmptyDict == <<>>
\* {**a, **b}: keys of both, b's value winning.
Merge(a, b) ==
  [k \in (DOMAIN a) \cup (DOMAIN b) |-> IF k \in DOMAIN b THEN b[k] ELSE a[k]]

\* ------------------------------------------------------------ str methods
Whitespace == {" ", "\n", "\t"}
Digits == {"0", "1", "2", "3"}

RECURSIVE LStrip(_)
LStrip(s) ==
  IF s # <<>> /\ Head(s) \in Whitespace THEN LStrip(Tail(s)) ELSE s

RECURSIVE RStrip(_)
RStrip(s) ==
  IF s # <<>> /\ s[Len(s)] \in Whitespace
  THEN RStrip(SubSeq(s, 1, Len(s) - 1))
  ELSE s

\* s.strip()
Strip(s) == RStrip(LStrip(s))

\* s.split(d): the parts between the occurrences of d, always at least one
\* part; "" splits into [""].
Split(s, d) ==
  LET at == {i \in DOMAIN s : s[i] = d}
      Nth(j) == CHOOSE p \in at : Cardinality({q \in at : q < p}) = j - 1
      First(j) == IF j = 1 THEN 1 ELSE Nth(j - 1) + 1
      Last(j) == IF j = Cardinality(at) + 1 THEN Len(s) ELSE Nth(j) - 1
  IN [j \in 1..(Cardinality(at) + 1) |-> SubSeq(s, First(j), Last(j))]

\* d.join(parts)
RECURSIVE Join(_, _)
Join(parts, d) ==
  IF parts = <<>> THEN <<>>
  ELSE IF Len(parts) = 1 THEN parts[1]
  ELSE parts[1] \o <<d>> \o Join(Tail(parts), d)

\* s[:k]
Prefix(s, k) == SubSeq(s, 1, IF Len(s) < k THEN Len(s) ELSE k)

\* Concatenation of a sequence of texts.
RECURSIVE Concat(_)
Concat(ss) == IF ss = <<>> THEN <<>> ELSE Head(ss) \o Concat(Tail(ss))

\* ------------------------------------------------------- the environment
\* Hex digit that fills the hash of the i-th most recent commit.
HexOf(i) == <<"a", "b", "c", "d", "e", "f">>[i]
Hash(i) == [k \in 1..HashLen |-> HexOf(i)]
Subjects == {<<"Add login">>, <<"Fix a", "|", "b">>}
\* The commit objects a repository can hold at position i (1 = most recent).
CommitObjects(i) ==
  {[hash |-> Hash(i), author |-> <<"Alice", " ", "A">>,
    date |-> <<"Mon Jan 1 2024">>, subject |-> s] : s \in Subjects}
\* Repositories: sequences of 0..MaxCommits commit objects.
Repositories ==
  UNION {{r \in [1..k -> UNION {CommitObjects(i) : i \in 1..k}] :
            \A i \in 1..k : r[i] \in CommitObjects(i)} : k \in 0..MaxCommits}

ApiKeys == {NoneVal, Str(<<>>), Str(<<"sk-test">>)}
OutputArgs == {NoneVal, Str(<<>>), Str(<<"CHANGELOG.md">>)}
GeneratedTexts == {<<"## Features", "\n", "- Login">>}
ExceptionTexts == {<<"Rate limit reached">>}
GitStderr == <<"fatal: not a git repository", "\n">>
Failure == [ok |-> FALSE, stdout |-> <<>>]
Success(out) == [ok |-> TRUE, stdout |-> out]

\* format_str = "--pretty=format:%H|%an|%ad|%s"
FormatLine(c) ==
  c.hash \o <<"|">> \o c.author \o <<"|">> \o c.date \o <<"|">> \o c.subject

Min(a, b) == IF a < b THEN a ELSE b

\* stdout of ["git", "log", f"-n{k}", format_str] on repository r.
GitLogStdout(r, k) ==
  Join([i \in 1..Min(k, Len(r)) |-> FormatLine(r[i])], "\n")

\* The commit object a hash names in repository r.
Lookup(r, h) == CHOOSE c \in {r[i] : i \in DOMAIN r} : c.hash = h

\* Possible stdouts of ["git", "show", "--format=%B", h]: the message alone,
\* or the message with a body and a patch after it.
MessageStdouts(r, h) ==
  {Lookup(r, h).subject \o <<"\n", "\n">>,
   Lookup(r, h).subject \o <<"\n", "\n", "Longer explanation.", "\n", "\n",
                             "diff --git", "\n">>}

\* Possible stdouts of ["git", "show", "--name-status", h].
NameStatusStdouts == {<<"commit ", "\n", "\n", "M", "\t", "x.py", "\n">>}

\* Possible stdouts of ["git", "show", "--numstat", h]: a text file and a
\* binary file, or nothing but the header.
NumstatStdouts ==
  {<<"commit ", "\n", "\n", "1", "2", "\t", "3", "\t", "x.py", "\n",
     "-", "\t", "-", "\t", "my", " ", "img.png", "\n">>,
   <<"commit ", "\n">>}

\* ------------------------------------------------------ get_recent_commits
RECURSIVE ParseLogLines(_)
ParseLogLines(lines) ==
  IF lines = <<>> THEN <<>>
  ELSE LET line == Head(lines)
           parts == Split(line, "|")
           rest == ParseLogLines(Tail(lines))
       IN IF line = <<>> THEN rest
          ELSE IF Len(parts) = FieldCount
               THEN <<[hash |-> parts[1], author |-> parts[2],
                       date |-> parts[3], message |-> parts[4]]>> \o rest
               ELSE rest

\* The try body of get_recent_commits, given the stdout of git log.
get_recent_commits(out) == ParseLogLines(Split(Strip(out), "\n"))

\* ------------------------------------------------------ get_commit_details
RECURSIVE LeadingRun(_, _)
LeadingRun(s, set) ==
  IF s # <<>> /\ Head(s) \in set THEN 1 + LeadingRun(Tail(s), set) ELSE 0

Drop(s, k) == SubSeq(s, k + 1, Len(s))

\* Length matched by (\d+|-) at the start of s; 0 when it does not match.
NumGroup(s) ==
  IF LeadingRun(s, Digits) > 0 THEN LeadingRun(s, Digits)
  ELSE IF s # <<>> /\ Head(s) = "-" THEN 1
  ELSE 0

\* pattern.match(line) for (\d+|-)\s+(\d+|-)\s+(.+): <<>> when there is no
\* match, else the one record built from the three groups.
MatchNumstat(line) ==
  LET a == NumGroup(line)
      r1 == Drop(line, a)
      w1 == LeadingRun(r1, Whitespace)
      r2 == Drop(r1, w1)
      b == NumGroup(r2)
      r3 == Drop(r2, b)
      w2 == LeadingRun(r3, Whitespace)
      r4 == Drop(r3, w2)
  IN IF a = 0 \/ w1 = 0 \/ b = 0 \/ w2 = 0 THEN <<>>
     ELSE IF r4 # <<>>
          THEN <<[file |-> r4, additions |-> Prefix(line, a),
                  deletions |-> Prefix(r2, b)]>>
     ELSE IF w2 >= 2
          THEN <<[file |-> <<r3[w2]>>, additions |-> Prefix(line, a),
                  deletions |-> Prefix(r2, b)]>>
     ELSE <<>>

RECURSIVE ParseNumstatLines(_)
ParseNumstatLines(lines) ==
  IF lines = <<>> THEN <<>>
  ELSE MatchNumstat(Head(lines)) \o ParseNumstatLines(Tail(lines))

\* The record get_commit_details returns after three successful invocations.
FullDetails(h, msg, chg, num) ==
  [hash |-> h, full_message |-> Strip(msg), changes |-> Strip(chg),
   diff_stats |-> ParseNumstatLines(Split(Strip(num), "\n"))]

\* Variant: the except branch hands back what had been read before the failure.
DetailsOnErrorPartial(h, msg, chg) ==
  [hash |-> h, full_message |-> Strip(msg)]

\* What the except branch returns; msg and chg are the outputs already read.
DetailsOnError(h, msg, chg) == EmptyDict

\* ----------------------------------------------------------- prepare_prompt
Preamble ==
  <<"Based on the following git commit history, generate a user-friendly changelog that summarizes the changes in a way that would be meaningful to the end user. Git Commit History:",
    "\n">>
Closing ==
  <<"Please generate a changelog with clear sections (e.g., Features, Improvements, Bug Fixes) using markdown formatting. Provide a concise summary that focues on the changes that matter most to the end user.">>

\* Variant: the comparison with the subject is left out.
HasDetailsLineAlways(c) == "full_message" \in DOMAIN c

\* 'full_message' in commit and commit["full_message"] != commit["message"]
HasDetailsLine(c) ==
  "full_message" \in DOMAIN c /\ c["full_message"] # c["message"]

\* "diff_stats" in commit and commit["diff_stats"]
HasFileLines(c) == "diff_stats" \in DOMAIN c /\ c["diff_stats"] # <<>>

RenderStat(stat) ==
  <<"File: ">> \o stat.file \o <<" (+">> \o stat.additions \o <<" / -">>
    \o stat.deletions \o <<")", "\n">>

\* One iteration of the loop of prepare_prompt.
RenderCommit(c) ==
  <<"Commit Hash: ">> \o Prefix(c["hash"], HashPrefixLen) \o <<"\n">>
    \o <<"Author: ">> \o c["author"] \o <<"\n">>
    \o <<"Date: ">> \o c["date"] \o <<"\n">>
    \o <<"Message: ">> \o c["message"] \o <<"\n">>
    \o (IF HasDetailsLine(c)
        THEN <<"Details: ">> \o c["full_message"] \o <<"\n">> ELSE <<>>)
    \o (IF HasFileLines(c)
        THEN Concat([i \in DOMAIN c["diff_stats"] |->
                       RenderStat(c["diff_stats"][i])])
        ELSE <<>>)
    \o <<"\n">>

prepare_prompt(cs) ==
  Preamble \o Concat([i \in DOMAIN cs |-> RenderCommit(cs[i])]) \o Closing

\* ------------------------------------------------------ generate_changelog
NoHistoryMessage == <<"No commit history found or not in a git repository">>

\* Variant: the emptiness test is missing.
NoCommitsNever(cs) == FALSE

\* if not commits: return "No commit history found ..."
NoCommits(cs) == cs = <<>>

\* Variant: the loop stops one commit early.
LoopNextOffByOne(i, cs) == IF i < Len(cs) THEN "show_message" ELSE "create"

\* Where the loop `for commit in commits` goes with i the next index: to the
\* detail fetch of commit i, or past the loop to the completion request.
LoopNext(i, cs) == IF i <= Len(cs) THEN "show_message" ELSE "create"

\* Variant: the exception text is returned without the prefix.
ErrorResultBare(e) == Str(e)

\* What generate_changelog returns when the request raised e.
ErrorResult(e) == Str(<<"Error generating changelog: ">> \o e)

\* What generate_changelog returns when the request returned: the function
\* ends after the try statement without a return statement.
SuccessResult(resp) == NoneVal

\* -------------------------------------------------------------------- state
VARIABLES
  apiKey,            \* os.getenv("OPENAI_API_KEY")
  n,                 \* args.n
  output,            \* args.output
  repo,              \* the commits of the repository, most recent first
  pc,                \* the statement the process is at
  commits,           \* generate_changelog: commits
  idx,               \* position of the loop over commits
  message,           \* get_commit_details: message.stdout, once read
  changes,           \* get_commit_details: changes.stdout, once read
  returned,          \* what each call of get_commit_details returned
  detailed_commits,  \* generate_changelog: detailed_commits
  prompt,            \* generate_changelog: prompt
  response,          \* generate_changelog: text carried by response
  raised,            \* text of the exception the request raised
  changelog,         \* main: changelog
  calls,             \* the external operations made so far, in order
  stdout,            \* the lines printed so far
  file,              \* content of the output file, None while not opened
  exitStatus         \* exit status of the process

vars ==
  <<apiKey, n, output, repo, pc, commits, idx, message, changes, returned,
    detailed_commits, prompt, response, raised, changelog, calls, stdout,
    file, exitStatus>>

args == <<apiKey, n, output, repo>>
fetchVars == <<commits, idx, message, changes, returned, detailed_commits>>
genVars == <<prompt, response, raised>>

Call(op, h, ok) == [op |-> op, hash |-> h, ok |-> ok]

Init ==
  /\ apiKey \in ApiKeys
  /\ n \in 1..MaxCommits
  /\ output \in OutputArgs
  /\ repo \in Repositories
  /\ pc = "import"
  /\ commits = <<>>
  /\ idx = 0
  /\ message = <<>>
  /\ changes = <<>>
  /\ returned = <<>>
  /\ detailed_commits = <<>>
  /\ prompt = NoneVal
  /\ response = NoneVal
  /\ raised = NoneVal
  /\ changelog = NoneVal
  /\ calls = <<>>
  /\ stdout = <<>>
  /\ file = NoneVal
  /\ exitStatus = 0

\* Module level: the credential check, then main's argument parsing.
Import ==
  /\ pc = "import"
  /\ IF ~Truthy(apiKey)
     THEN /\ stdout' = Append(stdout,
               <<"OPENAI_API_KEY environment variable not set in environment.">>)
          /\ exitStatus' = ExitFailure
          /\ pc' = "exited"
     ELSE /\ pc' = "git_log"
          /\ UNCHANGED <<stdout, exitStatus>>
  /\ UNCHANGED <<args, fetchVars, genVars, changelog, calls, file>>

\* get_recent_commits(n), and the emptiness test of generate_changelog.
GitLog ==
  /\ pc = "git_log"
  /\ \E ok \in BOOLEAN :
       LET cs == IF ok THEN get_recent_commits(GitLogStdout(repo, n))
                 ELSE <<>>
       IN /\ calls' = Append(calls, Call("log", <<>>, ok))
          /\ stdout' = IF ok THEN stdout
                       ELSE Append(stdout, <<"Error retrieving commits: ">>
                                             \o Strip(GitStderr))
          /\ commits' = cs
          /\ IF NoCommits(cs)
             THEN /\ changelog' = Str(NoHistoryMessage)
                  /\ pc' = "output"
                  /\ idx' = idx
             ELSE /\ changelog' = changelog
                  /\ idx' = 1
                  /\ pc' = LoopNext(1, cs)
  /\ UNCHANGED <<args, message, changes, returned, detailed_commits, genVars,
                 file, exitStatus>>

\* get_commit_details returns d: the loop body merges and appends it, and the
\* loop moves on.
ReturnDetails(d) ==
  /\ returned' = Append(returned, d)
  /\ detailed_commits' = Append(detailed_commits, Merge(commits[idx], d))
  /\ idx' = idx + 1
  /\ pc' = LoopNext(idx + 1, commits)
  /\ message' = <<>>
  /\ changes' = <<>>

\* Variant: a failed invocation ends the whole loop instead of one commit.
CalledProcessErrorAborts(h) ==
  /\ stdout' = Append(stdout, <<"Error retrieving commit details for ">>
                                \o h \o <<": ">> \o GitStderr)
  /\ returned' = Append(returned, EmptyDict)
  /\ detailed_commits' = Append(detailed_commits, commits[idx])
  /\ idx' = Len(commits) + 1
  /\ pc' = "create"
  /\ message' = <<>>
  /\ changes' = <<>>

\* The except branch of get_commit_details.
CalledProcessError(h) ==
  /\ stdout' = Append(stdout, <<"Error retrieving commit details for ">>
                                \o h \o <<": ">> \o GitStderr)
  /\ ReturnDetails(DetailsOnError(h, message, changes))

\* ["git", "show", "--format=%B", commit_hash]
ShowMessage ==
  /\ pc = "show_message"
  /\ LET h == commits[idx].hash
     IN \E r \in {Failure} \cup {Success(o) : o \in MessageStdouts(repo, h)} :
          /\ calls' = Append(calls, Call("show_message", h, r.ok))
          /\ IF r.ok
             THEN /\ message' = r.stdout
                  /\ pc' = "show_name_status"
                  /\ UNCHANGED <<idx, changes, returned, detailed_commits,
                                 stdout>>
             ELSE CalledProcessError(h)
  /\ UNCHANGED <<args, commits, genVars, changelog, file, exitStatus>>

\* ["git", "show", "--name-status", commit_hash]
ShowNameStatus ==
  /\ pc = "show_name_status"
  /\ LET h == commits[idx].hash
     IN \E r \in {Failure} \cup {Success(o) : o \in NameStatusStdouts} :
          /\ calls' = Append(calls, Call("show_name_status", h, r.ok))
          /\ IF r.ok
             THEN /\ changes' = r.stdout
                  /\ pc' = "show_numstat"
                  /\ UNCHANGED <<idx, message, returned, detailed_commits,
                                 stdout>>
             ELSE CalledProcessError(h)
  /\ UNCHANGED <<args, commits, genVars, changelog, file, exitStatus>>

\* ["git", "show", "--numstat", commit_hash], the parsing of its output and
\* the return of the record.
ShowNumstat ==
  /\ pc = "show_numstat"
  /\ LET h == commits[idx].hash
     IN \E r \in {Failure} \cup {Success(o) : o \in NumstatStdouts} :
          /\ calls' = Append(calls, Call("show_numstat", h, r.ok))
          /\ IF r.ok
             THEN /\ ReturnDetails(FullDetails(h, message, changes, r.stdout))
                  /\ UNCHANGED stdout
             ELSE CalledProcessError(h)
  /\ UNCHANGED <<args, commits, genVars, changelog, file, exitStatus>>

\* prepare_prompt(detailed_commits) and openai.ChatCompletion.create(...).
CreateCompletion ==
  /\ pc = "create"
  /\ prompt' = Str(prepare_prompt(detailed_commits))
  /\ \/ \E text \in GeneratedTexts :
          /\ calls' = Append(calls, Call("create", <<>>, TRUE))
          /\ response' = Str(text)
          /\ raised' = raised
          /\ changelog' = SuccessResult(Str(text))
     \/ \E e \in ExceptionTexts :
          /\ calls' = Append(calls, Call("create", <<>>, FALSE))
          /\ response' = response
          /\ raised' = Str(e)
          /\ changelog' = ErrorResult(e)
  /\ pc' = "output"
  /\ UNCHANGED <<args, fetchVars, stdout, file, exitStatus>>

\* main: else branch, print(changelog).
PrintChangelog ==
  /\ pc = "output"
  /\ ~Truthy(output)
  /\ calls' = Append(calls, Call("print", <<>>, TRUE))
  /\ stdout' = Append(stdout, PyStr(changelog))
  /\ pc' = "done"
  /\ UNCHANGED <<args, fetchVars, genVars, changelog, file, exitStatus>>

\* main: open(args.output, "w"); IOError is caught and reported.
OpenFile ==
  /\ pc = "output"
  /\ Truthy(output)
  /\ \E ok \in BOOLEAN :
       /\ calls' = Append(calls, Call("open", <<>>, ok))
       /\ IF ok
          THEN /\ file' = Str(<<>>)
               /\ pc' = "write"
               /\ stdout' = stdout
          ELSE /\ file' = file
               /\ pc' = "done"
               /\ stdout' = Append(stdout, <<"Error writing to file ">>
                              \o output.text \o <<": ">> \o <<"IOError">>)
  /\ UNCHANGED <<args, fetchVars, genVars, changelog, exitStatus>>

\* main: f.write(changelog).  write(None) raises TypeError, which the handler
\* for IOError does not catch: the interpreter prints the traceback and exits
\* with status 1.
WriteFile ==
  /\ pc = "write"
  /\ IF changelog.isNone
     THEN /\ calls' = Append(calls, Call("write", <<>>, FALSE))
          /\ pc' = "crashed"
          /\ exitStatus' = ExitFailure
          /\ UNCHANGED <<file, stdout>>
     ELSE \E ok \in BOOLEAN :
            /\ calls' = Append(calls, Call("write", <<>>, ok))
            /\ pc' = "done"
            /\ exitStatus' = exitStatus
            /\ IF ok
               THEN /\ file' = changelog
                    /\ stdout' = Append(stdout, <<"Changelog written to ">>
                                                  \o output.text)
               ELSE /\ file' = file
                    /\ stdout' = Append(stdout, <<"Error writing to file ">>
                              \o output.text \o <<": ">> \o <<"IOError">>)
  /\ UNCHANGED <<args, fetchVars, genVars, changelog>>

Next ==
  \/ Import
  \/ GitLog
  \/ ShowMessage
  \/ ShowNameStatus
  \/ ShowNumstat
  \/ CreateCompletion
  \/ PrintChangelog
  \/ OpenFile
  \/ WriteFile

Spec == Init /\ [][Next]_vars

\* ============================================================= properties
ShowOps == {"show_message", "show_name_status", "show_numstat"}
Stage(op) ==
  IF op = "show_message" THEN 1 ELSE IF op = "show_name_status" THEN 2 ELSE 3
Positions(ops) == {i \in DOMAIN calls : calls[i].op \in ops}
\* generate_changelog has returned to main.
Returned == pc \in {"output", "write", "done", "crashed"}
LogDone == Positions({"log"}) # {}
RequestSucceeded == \E i \in Positions({"create"}) : calls[i].ok
RequestFailed == \E i \in Positions({"create"}) : ~calls[i].ok
CommitIndex(h) == CHOOSE i \in DOMAIN commits : commits[i].hash = h
SummaryKeys == {"hash", "author", "date", "message"}
DetailKeys == {"hash", "full_message", "changes", "diff_stats"}

\* C1: when the history is non-empty and the request to the service succeeds,
\* generate_changelog returns a string equal to the generated text, never None.
C1_SuccessReturnsGeneratedText ==
  (Returned /\ commits # <<>> /\ RequestSucceeded)
    => (~changelog.isNone /\ changelog = response)

\* C2: once the credential check has passed, main terminates normally on every
\* combination of outcomes: no exception escapes, no non-zero exit status.
C2_MainNeverCrashes ==
  Truthy(apiKey) => (pc # "crashed" /\ exitStatus = 0)

\* C3: an empty result of get_recent_commits makes generate_changelog return
\* the fixed message, and no detail fetch and no request is ever made.
C3_EmptyHistoryShortCircuits ==
  (LogDone /\ commits = <<>>)
    => /\ Returned
       /\ changelog = Str(<<"No commit history found or not in a git repository">>)
       /\ Positions(ShowOps \cup {"create"}) = {}

C3_Witness ==
  /\ pc = "done"
  /\ commits = <<>>
  /\ \E i \in Positions({"log"}) : ~calls[i].ok
  /\ Positions({"print"}) # {}

\* C4: a failed request does not raise out of generate_changelog: the result is
\* the string "Error generating changelog: " followed by the exception text,
\* and the pipeline runs on to its end without a crash.
C4_FailureReturnsErrorString ==
  RequestFailed
    => /\ Returned
       /\ ~changelog.isNone
       /\ changelog.text = <<"Error generating changelog: ">> \o raised.text
       /\ pc \in {"output", "write", "done"}
       /\ exitStatus = 0
       /\ (pc # "done" => ENABLED Next)

C4_Witness ==
  /\ pc = "done"
  /\ RequestFailed
  /\ file = changelog

\* C5: get_commit_details returns either a record with all four fields, made
\* from three successful invocations, or {}; and after a failed invocation
\* no later invocation is made for that commit.
C5_DetailsAllOrNothing ==
  /\ \A i \in DOMAIN returned :
       LET h == commits[i].hash
           mine == {j \in Positions(ShowOps) : calls[j].hash = h}
       IN \/ /\ DOMAIN returned[i] = {}
             /\ \E j \in mine : ~calls[j].ok
          \/ /\ DOMAIN returned[i] = DetailKeys
             /\ returned[i].hash = h
             /\ {calls[j].op : j \in mine} = ShowOps
             /\ \A j \in mine : calls[j].ok
  /\ \A j, k \in Positions(ShowOps) :
       (j < k /\ calls[j].hash = calls[k].hash) => calls[j].ok

C5_Witness ==
  /\ Len(returned) = 2
  /\ DOMAIN returned[1] = {}
  /\ DOMAIN returned[2] = DetailKeys
  /\ \E j \in Positions({"show_name_status"}) : ~calls[j].ok

\* The part of the prompt that belongs to the i-th commit: the text between
\* the i-th "Commit Hash: " label and the next one (or the closing text).
Segments == Split(prompt.text, "Commit Hash: ")
Block(i) ==
  IF i + 1 = Len(Segments)
  THEN SubSeq(Segments[i + 1], 1, Len(Segments[i + 1]) - Len(Closing))
  ELSE Segments[i + 1]
Count(s, sym) == Cardinality({k \in DOMAIN s : s[k] = sym})
SummaryLines(c) ==
  SubSeq(c.hash, 1, 8) \o <<"\n", "Author: ">> \o c.author
    \o <<"\n", "Date: ">> \o c.date \o <<"\n", "Message: ">> \o c.message
    \o <<"\n", "\n">>

\* C6: whatever subset of detail fetches fails, every commit of the history is
\* in the prompt once and in order; a commit whose fetch failed shows only its
\* summary lines, and every other commit is rendered from its own data alone.
C6_FailureIsolatedPerCommit ==
  ~prompt.isNone
    => /\ Len(Segments) = Len(commits) + 1
       /\ Segments[1] = Preamble
       /\ SubSeq(prompt.text, Len(prompt.text) - Len(Closing) + 1,
                 Len(prompt.text)) = Closing
       /\ \A i \in DOMAIN commits :
            IF DOMAIN returned[i] = {}
            THEN Block(i) = SummaryLines(commits[i])
            ELSE Block(i) = Tail(RenderCommit(Merge(commits[i], returned[i])))

C6_Witness ==
  /\ ~prompt.isNone
  /\ Len(commits) = 2
  /\ DOMAIN returned[1] = {}
  /\ DOMAIN returned[2] # {}
  /\ Count(Block(2), "Details: ") = 1
  /\ Count(Block(2), "File: ") = 2

\* C7: a missing or empty credential ends the process with a diagnostic and
\* status 1 before any git invocation, request or file write; and no other
\* path ends with status 1.
C7_OnlyMissingKeyExitsWithStatus1 ==
  /\ (~Truthy(apiKey) /\ pc # "import")
       => (pc = "exited" /\ exitStatus = 1 /\ calls = <<>> /\ file.isNone)
  /\ exitStatus = 1 => ~Truthy(apiKey)

\* C8: when n is at most the number of commits and git log succeeds,
\* get_recent_commits returns exactly n summaries in log order, each with the
\* four fields hash, author, date, message.
C8_ExactlyNSummaries ==
  (n <= Len(repo) /\ \E i \in Positions({"log"}) : calls[i].ok)
    => /\ Len(commits) = n
       /\ \A i \in DOMAIN commits :
            /\ DOMAIN commits[i] = SummaryKeys
            /\ commits[i].hash = repo[i].hash

\* C9: the prompt has a "Details: " line for a commit exactly when the commit
\* has a full_message different from its message, and the line then carries
\* the full message verbatim.
C9_DetailsLineIffDifferent ==
  ~prompt.isNone
    => \A i \in DOMAIN detailed_commits :
         LET c == detailed_commits[i]
             b == Block(i)
             differs == "full_message" \in DOMAIN c
                          /\ c["full_message"] # c["message"]
         IN IF differs
            THEN /\ Count(b, "Details: ") = 1
                 /\ \E k \in DOMAIN b :
                      /\ b[k] = "Details: "
                      /\ b[k - 1] = "\n"
                      /\ SubSeq(b, k + 1, k + Len(c["full_message"]) + 1)
                           = c["full_message"] \o <<"\n">>
            ELSE Count(b, "Details: ") = 0

C9_Witness ==
  /\ ~prompt.isNone
  /\ Len(detailed_commits) = 2
  /\ "full_message" \in DOMAIN detailed_commits[1]
  /\ detailed_commits[1]["full_message"] = detailed_commits[1]["message"]
  /\ Count(Block(1), "Details: ") = 0
  /\ "full_message" \in DOMAIN detailed_commits[2]
  /\ Count(Block(2), "Details: ") = 1

\* The detail fetch of the commit that call j belongs to ends with call j.
EndsFetch(j) ==
  calls[j].op \in ShowOps /\ (~calls[j].ok \/ calls[j].op = "show_numstat")

\* C10: with a non-empty history the external calls come in a strict order:
\* git log once and first; the show invocations commit by commit, most recent
\* first, each commit's three in order and none after a failed one; one request
\* after the fetch of the last commit has ended; then the output step.  With
\* no failure there are 3 show invocations per commit.
C10_CallsInStrictOrder ==
  commits # <<>>
    => /\ calls[1].op = "log"
       /\ \A k \in DOMAIN calls : k > 1 =>
            LET c == calls[k]
                p == calls[k - 1]
            IN CASE c.op = "log" -> FALSE
                 [] c.op = "show_message" ->
                      IF CommitIndex(c.hash) = 1 THEN p.op = "log"
                      ELSE /\ EndsFetch(k - 1)
                           /\ CommitIndex(p.hash) = CommitIndex(c.hash) - 1
                 [] c.op \in {"show_name_status", "show_numstat"} ->
                      /\ p.op \in ShowOps
                      /\ Stage(p.op) = Stage(c.op) - 1
                      /\ p.hash = c.hash
                      /\ p.ok
                 [] c.op = "create" ->
                      /\ EndsFetch(k - 1)
                      /\ CommitIndex(p.hash) = Len(commits)
                 [] c.op \in {"print", "open"} -> p.op = "create"
                 [] c.op = "write" -> p.op = "open" /\ p.ok
       /\ (Positions({"create"}) # {} /\ \A j \in Positions(ShowOps) : calls[j].ok)
            => Cardinality(Positions(ShowOps)) = 3 * Len(commits)

C10_Witness ==
  /\ pc = "done"
  /\ Len(commits) = 2
  /\ \A j \in DOMAIN calls : calls[j].ok
  /\ Cardinality(Positions(ShowOps)) = 6
  /\ Positions({"print"}) # {}

====
